---- MODULE Spec2Model ----
(***************************************************************************)
(* The in-process AMQP broker of vumi/tests/fake_amqp.py as a state        *)
(* machine: FakeAMQPBroker, FakeAMQPChannel, the two exchange classes and  *)
(* FakeAMQPQueue, with the reactor's pending delivery passes.              *)
(*                                                                         *)
(* Strings the code takes apart (binding patterns, routing keys, regular   *)
(* expressions) are sequences of one-character strings.                    *)
(***************************************************************************)
EXTENDS Integers, Sequences, FiniteSets

(***************************************************************************)
(* Bounds of the model.                                                    *)
(***************************************************************************)
MaxWords == 3

(***************************************************************************)
(* FakeAMQPExchangeTopic._bind_regex: five str.replace passes, each        *)
(* wrapping the result in '^...$', then re.compile.                        *)
(***************************************************************************)
BS == "\\"

RECURSIVE Replace(_, _, _)
Replace(s, k, v) ==
    IF Len(s) < Len(k) THEN s
    ELSE IF SubSeq(s, 1, Len(k)) = k
         THEN v \o Replace(SubSeq(s, Len(k) + 1, Len(s)), k, v)
         ELSE <<Head(s)>> \o Replace(Tail(s), k, v)

ReNotDotPlus == <<"[", "^", ".", "]", "+">>

\* A table whose trailing '#' keeps its dot and stands for one more word.
BindRegexTable_hash_keeps_dot ==
    << << <<".">>,                 <<BS, ".">> >>,
       << <<"*">>,                 ReNotDotPlus >>,
       << <<BS, ".", "#", BS, ".">>,
          <<BS, ".", "(">> \o ReNotDotPlus \o <<BS, ".", ")", "*">> >>,
       << <<"#", BS, ".">>,
          <<"(">> \o ReNotDotPlus \o <<BS, ".", ")", "*">> >>,
       << <<BS, ".", "#">>,
          <<BS, ".">> \o ReNotDotPlus >> >>

BindRegexTable ==
    << << <<".">>,                 <<BS, ".">> >>,
       << <<"*">>,                 ReNotDotPlus >>,
       << <<BS, ".", "#", BS, ".">>,
          <<BS, ".", "(">> \o ReNotDotPlus \o <<BS, ".", ")", "*">> >>,
       << <<"#", BS, ".">>,
          <<"(">> \o ReNotDotPlus \o <<BS, ".", ")", "*">> >>,
       << <<BS, ".", "#">>,
          <<"(", BS, ".">> \o ReNotDotPlus \o <<")", "*">> >> >>

RECURSIVE BindRegexFrom(_, _)
BindRegexFrom(bind, i) ==
    IF i > Len(BindRegexTable) THEN bind
    ELSE BindRegexFrom(
            <<"^">> \o Replace(bind, BindRegexTable[i][1], BindRegexTable[i][2])
                    \o <<"$">>,
            i + 1)

bind_regex(bind) == BindRegexFrom(bind, 1)

(***************************************************************************)
(* re.compile on the regular expressions _bind_regex produces: anchors,    *)
(* an escaped character, the class [^.]+ , an unnested group ( ... )* and  *)
(* literal characters.                                                     *)
(***************************************************************************)
RECURSIVE IndexOf(_, _, _)
IndexOf(s, c, i) ==
    IF i > Len(s) THEN 0
    ELSE IF s[i] = c THEN i ELSE IndexOf(s, c, i + 1)

RECURSIVE ReCompile(_)
ReCompile(re) ==
    IF re = <<>> THEN <<>>
    ELSE LET c == Head(re) IN
         IF c = "^" THEN <<[k |-> "bol"]>> \o ReCompile(Tail(re))
         ELSE IF c = "$" THEN <<[k |-> "eol"]>> \o ReCompile(Tail(re))
         ELSE IF c = BS
              THEN <<[k |-> "lit", c |-> re[2]]>>
                       \o ReCompile(SubSeq(re, 3, Len(re)))
         ELSE IF c = "["
              THEN <<[k |-> "notdot+"]>>
                       \o ReCompile(SubSeq(re, Len(ReNotDotPlus) + 1, Len(re)))
         ELSE IF c = "("
              THEN LET close == IndexOf(re, ")", 1) IN
                   <<[k |-> "star",
                      body |-> ReCompile(SubSeq(re, 2, close - 1))]>>
                       \o ReCompile(SubSeq(re, close + 2, Len(re)))
         ELSE <<[k |-> "lit", c |-> c]>> \o ReCompile(Tail(re))

(***************************************************************************)
(* Pattern.match(rkey): the positions of rkey the compiled expression can  *)
(* reach from position 0.                                                  *)
(***************************************************************************)
RECURSIVE ReSeq(_, _, _), ReStar(_, _, _)
ReItem(item, text, P) ==
    IF item.k = "bol" THEN {p \in P : p = 0}
    ELSE IF item.k = "eol" THEN {p \in P : p = Len(text)}
    ELSE IF item.k = "lit"
         THEN {p + 1 : p \in {q \in P : q < Len(text) /\ text[q + 1] = item.c}}
    ELSE IF item.k = "notdot+"
         THEN {e \in 1..Len(text) :
                  \E p \in P : p < e /\ \A j \in (p + 1)..e : text[j] # "."}
    ELSE ReStar(item.body, text, P)

ReSeq(items, text, P) ==
    IF items = <<>> THEN P
    ELSE ReSeq(Tail(items), text, ReItem(Head(items), text, P))

ReStar(body, text, P) ==
    LET Q == P \cup ReSeq(body, text, P) IN
    IF Q = P THEN P ELSE ReStar(body, text, Q)

ReMatch(re, text) == ReSeq(ReCompile(re), text, {0}) # {}

match_rkey(bind, rkey) == ReMatch(bind_regex(bind), rkey)

(***************************************************************************)
(* Dot-separated strings over a bounded alphabet.                          *)
(***************************************************************************)
RECURSIVE Join(_)
Join(words) ==
    IF words = <<>> THEN <<>>
    ELSE IF Len(words) = 1 THEN <<words[1]>>
    ELSE <<words[1], ".">> \o Join(Tail(words))

RECURSIVE Split(_)
Split(s) ==
    LET d == IndexOf(s, ".", 1) IN
    IF d = 0 THEN <<s>>
    ELSE <<SubSeq(s, 1, d - 1)>> \o Split(SubSeq(s, d + 1, Len(s)))

KeyWords == {"a", "b"}
BindWords == KeyWords \cup {"*", "#"}
WordSeqs(W) == UNION {[1..n -> W] : n \in 1..MaxWords}
\* Routing keys run one word longer than the binding patterns.
KeySeqs(W) == UNION {[1..n -> W] : n \in 1..(MaxWords + 1)}

VARIABLES m_bind, m_rkey, m_result

mvars == <<m_bind, m_rkey, m_result>>

\* m_result takes the value the call returns.
MatchRkey ==
    /\ m_result = <<>>
    /\ m_result' = <<match_rkey(m_bind, m_rkey)>>
    /\ UNCHANGED <<m_bind, m_rkey>>

(***************************************************************************)
(* The universe of the broker model: the channel objects and the names of  *)
(* queues and exchanges, and the routing keys the callers publish with.    *)
(***************************************************************************)
ChannelIds == {1, 2}
QueueNames == {"q1", "q2"}
QueueOrder == <<"q1", "q2">>
DeclaredNames == {"e"}
ExchangeNames == DeclaredNames \cup {"nx"}
RKeys == {<<"a">>, <<"b">>}
MaxPublish == 2
MaxPending == 2

None == "None"

VARIABLES
    queues,              \* FakeAMQPBroker.queues: name -> FakeAMQPQueue
    exchanges,           \* FakeAMQPBroker.exchanges: name -> exchange
    channels,            \* FakeAMQPBroker.channels: the opened channels
    dispatched,          \* FakeAMQPBroker.dispatched: the audit log
    qos_prefetch_count,  \* FakeAMQPChannel.qos_prefetch_count
    consumers,           \* FakeAMQPChannel.consumers, in iteration order
    unacked,             \* FakeAMQPChannel.unacked
    delivered,           \* what each channel's delegate.basic_deliver got
    pending,             \* the reactor's pending deliver_to_channels calls
    minted,              \* the delivery tags gen_longlong has returned
    nput,                \* the envelopes FakeAMQPQueue.put has created
    ret                  \* the last call and its outcome

bvars == <<queues, exchanges, channels, dispatched, qos_prefetch_count,
           consumers, unacked, delivered, pending, minted, nput, ret>>

\* the broker with its channels and the reactor, without the callers' view.
broker == <<queues, exchanges, channels, dispatched, qos_prefetch_count,
            consumers, unacked, delivered, pending, minted, nput>>

(***************************************************************************)
(* GoConversationTransport (vumi_bridge.py): the reconnect state of the    *)
(* bridge transport and its two streaming clients.  Delays are in          *)
(* milliseconds.                                                           *)
(***************************************************************************)
MaxLosses == 2
MaxSigmas == 6

VARIABLES
    retries,             \* self.retries
    delay,               \* self.delay
    reconnect_call,      \* self.reconnect_call: None, or the DelayedCall
    continue_trying,     \* self.continue_trying
    clients,             \* message_client and event_client: the connection
    max_retries          \* config.max_retries: <<>> for None, else <<n>>

tvars == <<retries, delay, reconnect_call, continue_trying, clients,
           max_retries>>

(***************************************************************************)
(* Helpers on sequences, dicts and bags.                                   *)
(***************************************************************************)
SeqRange(s) == {s[i] : i \in 1..Len(s)}

RemoveAt(s, i) == SubSeq(s, 1, i - 1) \o SubSeq(s, i + 1, Len(s))

InsertAt(s, i, x) == SubSeq(s, 1, i - 1) \o <<x>> \o SubSeq(s, i, Len(s))

DictSet(d, k, v) == [x \in DOMAIN d \cup {k} |-> IF x = k THEN v ELSE d[x]]

DictDel(d, k) == [x \in DOMAIN d \ {k} |-> d[x]]

EmptyDict == [x \in {} |-> None]

RECURSIVE SumLen(_, _)
SumLen(qs, names) ==
    IF names = {} THEN 0
    ELSE LET n == CHOOSE x \in names : TRUE IN
         Len(qs[n].messages) + SumLen(qs, names \ {n})

\* The number of ready messages in all queues.
TotalReady(qs) == SumLen(qs, DOMAIN qs)

\* ret is the last call, its name and arguments, with its outcome: the
\* exception it raised, "ok" for a reply without fields (open-ok, declare-ok
\* of an exchange, bind-ok, cancel-ok) and for None, else the kind of the
\* reply with the reply's fields.  A basic_ack that got past its first assertion
\* leaves the entries FakeAMQPBroker.basic_ack acknowledged, in order.  A
\* pass of the delivery loop leaves the loop as it has run and what it did
\* last: callLater, the Deferred's callback or the exception that ended it.
Nothing == [nothing |-> TRUE]
Result(res, val) == [res |-> res, val |-> val]
Ok == Result("ok", Nothing)
Raised(exception) == Result(exception, Nothing)
Checked(asserted) == IF asserted THEN Ok ELSE Raised("AssertionError")
Ret(op, args, result) ==
    [op |-> op, args |-> args, res |-> result.res, val |-> result.val]

(***************************************************************************)
(* FakeAMQPQueue.                                                          *)
(***************************************************************************)
FakeAMQPQueue ==
    [messages |-> <<>>, consumers |-> {}, unacked_messages |-> EmptyDict]

add_consumer(q, consumer_tag) ==
    [q EXCEPT !.consumers = @ \cup {consumer_tag}]

remove_consumer(q, consumer_tag) ==
    [q EXCEPT !.consumers = @ \ {consumer_tag}]

\* put: a new envelope (uid stands for the identity of the dict object).
put(q, exchange, routing_key, body, uid) ==
    [q EXCEPT !.messages = Append(@, [exchange |-> exchange,
                                      routing_key |-> routing_key,
                                      content |-> body,
                                      uid |-> uid])]

\* gen_longlong: the low 64 bits of a uuid4, modelled as a value never
\* returned before (the n-th call returns n).
gen_longlong(n) == n + 1

\* a get_message that files the head without popping it.
get_message_keeping_head(q, dtag) ==
    [q EXCEPT !.unacked_messages = DictSet(@, dtag, Head(q.messages))]

\* A get_message that pops the newest message, messages.pop().
get_message_newest(q, dtag) ==
    [q EXCEPT !.messages = SubSeq(@, 1, Len(@) - 1),
              !.unacked_messages = DictSet(@, dtag, q.messages[Len(q.messages)])]

\* get_message on a queue that holds a message: pops the head and files it
\* under the tag dtag.
get_message(q, dtag) ==
    [q EXCEPT !.messages = Tail(@),
              !.unacked_messages = DictSet(@, dtag, Head(q.messages))]

\* ack: dict.pop(delivery_tag), a KeyError when the tag is not there.
ack(q, delivery_tag) ==
    [q EXCEPT !.unacked_messages = DictDel(@, delivery_tag)]

(***************************************************************************)
(* The reactor's pending calls: a bag of delivery loops, each with the     *)
(* number of passes it has run and the number of ready messages it has had *)
(* to deliver: those ready when it was kicked and those enqueued since.    *)
(***************************************************************************)
BagAdd(b, x) ==
    IF x \in DOMAIN b THEN [b EXCEPT ![x] = @ + 1] ELSE DictSet(b, x, 1)

BagRemove(b, x) ==
    IF b[x] = 1 THEN DictDel(b, x) ELSE [b EXCEPT ![x] = @ - 1]

RECURSIVE BagSize(_)
BagSize(b) ==
    IF DOMAIN b = {} THEN 0
    ELSE LET x == CHOOSE y \in DOMAIN b : TRUE IN b[x] + BagSize(DictDel(b, x))

NewLoop(qs) == [passes |-> 0, ready0 |-> TotalReady(qs)]

\* kick_delivery, n times: n new Deferreds, each with a callLater(0, ...).
RECURSIVE kick_delivery(_, _, _)
kick_delivery(pend, qs, n) ==
    IF n = 0 THEN pend ELSE kick_delivery(BagAdd(pend, NewLoop(qs)), qs, n - 1)

\* a publish that enqueues n envelopes adds them to every pending loop's count.
RECURSIVE Enqueued(_, _)
Enqueued(pend, n) ==
    IF DOMAIN pend = {} THEN pend
    ELSE LET x == CHOOSE y \in DOMAIN pend : TRUE
             rest == Enqueued(DictDel(pend, x), n)
             y == [x EXCEPT !.ready0 = @ + n]
         IN  IF y \in DOMAIN rest THEN [rest EXCEPT ![y] = @ + pend[x]]
             ELSE DictSet(rest, y, pend[x])

CanKick(n) == BagSize(pending) + n <= MaxPending


(***************************************************************************)
(* FakeAMQPBroker.__init__ and FakeAMQPChannel.__init__.                   *)
(***************************************************************************)
BrokerInit ==
    /\ queues = EmptyDict
    /\ exchanges = EmptyDict
    /\ channels = <<>>
    /\ dispatched = EmptyDict
    /\ qos_prefetch_count = [c \in ChannelIds |-> 0]
    /\ consumers = [c \in ChannelIds |-> <<>>]
    /\ unacked = [c \in ChannelIds |-> <<>>]
    /\ delivered = [c \in ChannelIds |-> <<>>]
    /\ pending = EmptyDict
    /\ minted = 0
    /\ nput = 0
    /\ ret = Ret("__init__", [self |-> "FakeAMQPBroker"], Ok)

(***************************************************************************)
(* channel_open, exchange_declare, queue_declare, queue_bind.              *)
(***************************************************************************)
channel_open(c) ==
    /\ IF c \in SeqRange(channels)
       THEN /\ ret' = Ret("channel_open", [c |-> c],
                          Raised("AssertionError"))
            /\ UNCHANGED channels
       ELSE /\ channels' = Append(channels, c)
            /\ ret' = Ret("channel_open", [c |-> c],
                          Ok)
    /\ UNCHANGED <<queues, exchanges, dispatched, qos_prefetch_count, consumers,
                   unacked, delivered, pending, minted, nput, mvars, tvars>>

\* An exchange_declare that stores the new exchange under the name, whatever
\* was declared there before.
exchange_declare_replacing(exchange, exchange_type) ==
    /\ IF exchange_type \notin {"direct", "topic"}
       THEN /\ ret' = Ret("exchange_declare",
                          [exchange |-> exchange,
                           exchange_type |-> exchange_type],
                          Raised("AssertionError"))
            /\ UNCHANGED exchanges
       ELSE /\ exchanges' =
                   IF exchange \in DOMAIN exchanges
                      /\ exchanges[exchange].exchange_type = exchange_type
                   THEN exchanges
                   ELSE DictSet(exchanges, exchange,
                                [exchange_type |-> exchange_type,
                                 binds |-> EmptyDict])
            /\ ret' = Ret("exchange_declare",
                          [exchange |-> exchange,
                           exchange_type |-> exchange_type],
                          Ok)
    /\ UNCHANGED <<queues, channels, dispatched, qos_prefetch_count, consumers,
                   unacked, delivered, pending, minted, nput, mvars, tvars>>

exchange_declare(exchange, exchange_type) ==
    /\ IF exchange_type \notin {"direct", "topic"}
       THEN /\ ret' = Ret("exchange_declare",
                          [exchange |-> exchange,
                           exchange_type |-> exchange_type],
                          Raised("AssertionError"))
            /\ UNCHANGED exchanges
       ELSE LET declared ==
                    IF exchange \in DOMAIN exchanges THEN exchanges
                    ELSE DictSet(exchanges, exchange,
                                 [exchange_type |-> exchange_type,
                                  binds |-> EmptyDict])
            IN  /\ exchanges' = declared
                /\ ret' = Ret("exchange_declare",
                              [exchange |-> exchange,
                               exchange_type |-> exchange_type],
                              Checked(declared[exchange].exchange_type
                                          = exchange_type))
    /\ UNCHANGED <<queues, channels, dispatched, qos_prefetch_count, consumers,
                   unacked, delivered, pending, minted, nput, mvars, tvars>>

\* queue_declare(''): gen_id('queue.') names the queue.
queue_declare(queue) ==
    \E name \in IF queue = "" THEN QueueNames ELSE {queue} :
        LET declared == IF name \in DOMAIN queues THEN queues
                        ELSE DictSet(queues, name, FakeAMQPQueue)
        IN  /\ queues' = declared
            /\ ret' = Ret("queue_declare", [queue |-> queue],
                          Result("declare-ok",
                              [queue |-> name,
                               message_count |-> Len(declared[name].messages),
                               consumer_count |->
                                   Cardinality(declared[name].consumers)]))
            /\ UNCHANGED <<exchanges, channels, dispatched, qos_prefetch_count,
                           consumers, unacked, delivered, pending, minted, nput,
                           mvars, tvars>>

exchange_queue_bind(ex, routing_key, queue) ==
    [ex EXCEPT !.binds =
        DictSet(@, routing_key,
                IF routing_key \in DOMAIN @ THEN @[routing_key] \cup {queue}
                ELSE {queue})]

\* A queue_bind that ends with kick_delivery, as basic_consume does.
queue_bind_kicking(queue, exchange, routing_key) ==
    /\ IF exchange \notin DOMAIN exchanges \/ queue \notin DOMAIN queues
       THEN /\ ret' = Ret("queue_bind",
                          [queue |-> queue, exchange |-> exchange,
                           routing_key |-> routing_key],
                          Raised("AssertionError"))
            /\ UNCHANGED <<exchanges, pending>>
       ELSE /\ CanKick(1)
            /\ exchanges' = [exchanges EXCEPT ![exchange] =
                                exchange_queue_bind(@, routing_key, queue)]
            /\ pending' = kick_delivery(pending, queues, 1)
            /\ ret' = Ret("queue_bind",
                          [queue |-> queue, exchange |-> exchange,
                           routing_key |-> routing_key],
                          Ok)
    /\ UNCHANGED <<queues, channels, dispatched, qos_prefetch_count, consumers,
                   unacked, delivered, minted, nput, mvars, tvars>>

queue_bind(queue, exchange, routing_key) ==
    /\ IF exchange \notin DOMAIN exchanges \/ queue \notin DOMAIN queues
       THEN /\ ret' = Ret("queue_bind",
                          [queue |-> queue, exchange |-> exchange,
                           routing_key |-> routing_key],
                          Raised("AssertionError"))
            /\ UNCHANGED exchanges
       ELSE /\ exchanges' = [exchanges EXCEPT ![exchange] =
                                exchange_queue_bind(@, routing_key, queue)]
            /\ ret' = Ret("queue_bind",
                          [queue |-> queue, exchange |-> exchange,
                           routing_key |-> routing_key],
                          Ok)
    /\ UNCHANGED <<queues, channels, dispatched, qos_prefetch_count, consumers,
                   unacked, delivered, pending, minted, nput, mvars, tvars>>

(***************************************************************************)
(* basic_publish: the audit log, then the exchange's routing.              *)
(***************************************************************************)
RECURSIVE put_copies(_, _, _, _, _, _)
put_copies(q, n, exchange, routing_key, body, uid) ==
    IF n = 0 THEN q
    ELSE put_copies(put(q, exchange, routing_key, body, uid + 1),
                    n - 1, exchange, routing_key, body, uid + 1)

\* a direct exchange that matches its binds as a topic exchange does.
direct_basic_publish_matching(ex, routing_key) ==
    [q \in QueueNames |->
        Cardinality({bind \in DOMAIN ex.binds :
                        match_rkey(bind, routing_key) /\ q \in ex.binds[bind]})]

\* FakeAMQPExchangeDirect.basic_publish: how often each queue is put to.
direct_basic_publish(ex, routing_key) ==
    [q \in QueueNames |->
        IF routing_key \in DOMAIN ex.binds /\ q \in ex.binds[routing_key]
        THEN 1 ELSE 0]

\* FakeAMQPExchangeTopic.basic_publish: one put per matching bind and queue.
topic_basic_publish(ex, routing_key) ==
    [q \in QueueNames |->
        Cardinality({bind \in DOMAIN ex.binds :
                        match_rkey(bind, routing_key) /\ q \in ex.binds[bind]})]

exchange_basic_publish(ex, routing_key) ==
    IF ex.exchange_type = "direct" THEN direct_basic_publish(ex, routing_key)
    ELSE topic_basic_publish(ex, routing_key)

RECURSIVE SumUpTo(_, _)
SumUpTo(copies, i) ==
    IF i = 0 THEN 0 ELSE copies[QueueOrder[i]] + SumUpTo(copies, i - 1)

\* the queues after the exchange's puts; uids are given in QueueOrder.
routed(qs, copies, exchange, routing_key, body, uid) ==
    [q \in DOMAIN qs |->
        LET i == CHOOSE j \in 1..Len(QueueOrder) : QueueOrder[j] = q IN
        put_copies(qs[q], copies[q], exchange, routing_key, body,
                   uid + SumUpTo(copies, i - 1))]

audit(log, exchange, routing_key, body) ==
    LET exc == IF exchange \in DOMAIN log THEN log[exchange] ELSE EmptyDict
        old == IF routing_key \in DOMAIN exc THEN exc[routing_key] ELSE <<>>
    IN  DictSet(log, exchange, DictSet(exc, routing_key, Append(old, body)))

\* log.get(exchange, {}).get(rkey, [])
dict_get_get(log, exchange, rkey) ==
    IF exchange \in DOMAIN log /\ rkey \in DOMAIN log[exchange]
    THEN log[exchange][rkey] ELSE <<>>

get_dispatched(exchange, rkey) == dict_get_get(dispatched, exchange, rkey)

RECURSIVE AuditSize(_, _)
AuditSize(log, pairs) ==
    IF pairs = {} THEN 0
    ELSE LET x == CHOOSE y \in pairs : TRUE IN
         (IF x[1] \in DOMAIN log /\ x[2] \in DOMAIN log[x[1]]
          THEN Len(log[x[1]][x[2]]) ELSE 0) + AuditSize(log, pairs \ {x})

\* the basic_publish calls made so far.
Published == AuditSize(dispatched, ExchangeNames \X RKeys)

\* a basic_publish without the early return: _get_exchange asserts.
basic_publish_asserting(exchange, routing_key, body) ==
    /\ dispatched' = audit(dispatched, exchange, routing_key, body)
    /\ IF exchange \notin DOMAIN exchanges
       THEN /\ ret' = Ret("basic_publish",
                          [exchange |-> exchange, routing_key |-> routing_key,
                           body |-> body],
                          Raised("AssertionError"))
            /\ UNCHANGED <<queues, pending, nput>>
       ELSE LET copies ==
                    exchange_basic_publish(exchanges[exchange], routing_key)
                total == SumUpTo(copies, Len(QueueOrder))
            IN  /\ CanKick(1)
                /\ queues' = routed(queues, copies, exchange, routing_key,
                                    body, nput)
                /\ nput' = nput + total
                /\ pending' = kick_delivery(
                       Enqueued(pending, total), queues', 1)
                /\ ret' = Ret("basic_publish",
                              [exchange |-> exchange,
                               routing_key |-> routing_key, body |-> body],
                              Ok)
    /\ UNCHANGED <<exchanges, channels, qos_prefetch_count, consumers, unacked,
                   delivered, minted, mvars, tvars>>

basic_publish(exchange, routing_key, body) ==
    /\ dispatched' = audit(dispatched, exchange, routing_key, body)
    /\ ret' = Ret("basic_publish",
                  [exchange |-> exchange, routing_key |-> routing_key,
                   body |-> body],
                  Ok)
    /\ IF exchange \notin DOMAIN exchanges
       THEN UNCHANGED <<queues, pending, nput>>
       ELSE LET copies ==
                    exchange_basic_publish(exchanges[exchange], routing_key)
                total == SumUpTo(copies, Len(QueueOrder))
            IN  /\ CanKick(1)
                /\ queues' = routed(queues, copies, exchange, routing_key,
                                    body, nput)
                /\ nput' = nput + total
                /\ pending' = kick_delivery(
                       Enqueued(pending, total), queues', 1)
    /\ UNCHANGED <<exchanges, channels, qos_prefetch_count, consumers, unacked,
                   delivered, minted, mvars, tvars>>

(***************************************************************************)
(* FakeAMQPChannel: basic_qos, basic_consume, basic_cancel, basic_get.     *)
(***************************************************************************)
basic_qos(c, prefetch_count) ==
    /\ qos_prefetch_count' = [qos_prefetch_count EXCEPT ![c] = prefetch_count]
    /\ ret' = Ret("basic_qos", [c |-> c, prefetch_count |-> prefetch_count],
                  Ok)
    /\ UNCHANGED <<queues, exchanges, channels, dispatched, consumers, unacked,
                   delivered, pending, minted, nput, mvars, tvars>>

ConsumerIndex(cs, tag) ==
    IF \E i \in 1..Len(cs) : cs[i].tag = tag
    THEN CHOOSE i \in 1..Len(cs) : cs[i].tag = tag
    ELSE 0

\* basic_consume with a tag given or made by gen_id('consumer.'); the dict
\* consumers takes the new key at any place of its iteration order.
basic_consume(c, queue, tag) ==
    IF ConsumerIndex(consumers[c], tag) # 0
    THEN /\ ret' = Ret("basic_consume",
                       [c |-> c, queue |-> queue, tag |-> tag],
                       Raised("AssertionError"))
         /\ UNCHANGED <<queues, exchanges, channels, dispatched,
                        qos_prefetch_count, consumers, unacked, delivered,
                        pending, minted, nput, mvars, tvars>>
    ELSE \E at \in 1..(Len(consumers[c]) + 1) :
           /\ consumers' = [consumers EXCEPT ![c] =
                               InsertAt(@, at, [tag |-> tag, queue |-> queue])]
           /\ IF queue \notin DOMAIN queues
              THEN /\ ret' = Ret("basic_consume",
                                 [c |-> c, queue |-> queue, tag |-> tag],
                                 Raised("AssertionError"))
                   /\ UNCHANGED <<queues, pending>>
              ELSE /\ CanKick(1)
                   /\ queues' = [queues EXCEPT ![queue] = add_consumer(@, tag)]
                   /\ pending' = kick_delivery(pending, queues', 1)
                   /\ ret' = Ret("basic_consume",
                                 [c |-> c, queue |-> queue, tag |-> tag],
                                 Result("consume-ok", [consumer_tag |-> tag]))
           /\ UNCHANGED <<exchanges, channels, dispatched, qos_prefetch_count,
                          unacked, delivered, minted, nput, mvars, tvars>>

\* A basic_cancel that tells the broker and keeps the channel's own entry.
basic_cancel_broker_only(c, tag) ==
    LET i == ConsumerIndex(consumers[c], tag) IN
    /\ IF i = 0
       THEN UNCHANGED queues
       ELSE LET queue == consumers[c][i].queue IN
            queues' = IF queue \in DOMAIN queues
                      THEN [queues EXCEPT ![queue] = remove_consumer(@, tag)]
                      ELSE queues
    /\ ret' = Ret("basic_cancel", [c |-> c, tag |-> tag],
                  Ok)
    /\ UNCHANGED <<exchanges, channels, dispatched, qos_prefetch_count, unacked,
                   consumers, delivered, pending, minted, nput, mvars, tvars>>

basic_cancel(c, tag) ==
    LET i == ConsumerIndex(consumers[c], tag) IN
    /\ IF i = 0
       THEN UNCHANGED <<consumers, queues>>
       ELSE LET queue == consumers[c][i].queue IN
            /\ consumers' = [consumers EXCEPT ![c] = RemoveAt(@, i)]
            /\ queues' = IF queue \in DOMAIN queues
                         THEN [queues EXCEPT ![queue] = remove_consumer(@, tag)]
                         ELSE queues
    /\ ret' = Ret("basic_cancel", [c |-> c, tag |-> tag],
                  Ok)
    /\ UNCHANGED <<exchanges, channels, dispatched, qos_prefetch_count, unacked,
                   delivered, pending, minted, nput, mvars, tvars>>

mk_get_ok(msg, dtag) ==
    [delivery_tag |-> dtag, redelivered |-> FALSE, exchange |-> msg.exchange,
     routing_key |-> msg.routing_key, body |-> msg.content]

\* A basic_get whose get_message draws the delivery tag before it looks for
\* a message, and files the tag with the channel either way.
basic_get_tag_first(c, queue) ==
    /\ IF queue \notin DOMAIN queues
       THEN /\ ret' = Ret("basic_get", [c |-> c, queue |-> queue],
                          Raised("AssertionError"))
            /\ UNCHANGED <<queues, unacked, minted>>
       ELSE LET dtag == gen_longlong(minted) IN
            /\ minted' = dtag
            /\ unacked' = [unacked EXCEPT ![c] = Append(@, <<dtag, queue>>)]
            /\ IF queues[queue].messages = <<>>
               THEN /\ ret' = Ret("basic_get", [c |-> c, queue |-> queue],
                                  Result("get-empty", Nothing))
                    /\ UNCHANGED queues
               ELSE /\ queues' = [queues EXCEPT
                                     ![queue] = get_message(@, dtag)]
                    /\ ret' = Ret("basic_get", [c |-> c, queue |-> queue],
                                  Result("deliver",
                                      mk_get_ok(Head(queues[queue].messages),
                                                dtag)))
    /\ UNCHANGED <<exchanges, channels, dispatched, qos_prefetch_count,
                   consumers, delivered, pending, nput, mvars, tvars>>

basic_get(c, queue) ==
    /\ IF queue \notin DOMAIN queues
       THEN /\ ret' = Ret("basic_get", [c |-> c, queue |-> queue],
                          Raised("AssertionError"))
            /\ UNCHANGED <<queues, unacked, minted>>
       ELSE IF queues[queue].messages = <<>>
       THEN /\ ret' = Ret("basic_get", [c |-> c, queue |-> queue],
                          Result("get-empty", Nothing))
            /\ UNCHANGED <<queues, unacked, minted>>
       ELSE LET dtag == gen_longlong(minted) IN
            /\ minted' = dtag
            /\ queues' = [queues EXCEPT ![queue] = get_message(@, dtag)]
            /\ unacked' = [unacked EXCEPT ![c] = Append(@, <<dtag, queue>>)]
            /\ ret' = Ret("basic_get", [c |-> c, queue |-> queue],
                          Result("deliver",
                              mk_get_ok(Head(queues[queue].messages), dtag)))
    /\ UNCHANGED <<exchanges, channels, dispatched, qos_prefetch_count,
                   consumers, delivered, pending, nput, mvars, tvars>>

(***************************************************************************)
(* FakeAMQPChannel.basic_ack with FakeAMQPBroker.basic_ack: the scan of a  *)
(* copy of unacked.  A is the channel's list, the queues, the entries      *)
(* FakeAMQPBroker.basic_ack has acknowledged (each with a kick_delivery),  *)
(* in the order of the calls, and how the scan has ended.                  *)
(***************************************************************************)
RemoveFirst(s, x) ==
    LET i == CHOOSE j \in 1..Len(s) : s[j] = x /\ \A k \in 1..(j - 1) : s[k] # x
    IN  RemoveAt(s, i)

\* the broker's part for one entry: the queue lookup, FakeAMQPQueue.ack.
broker_basic_ack(A, entry) ==
    LET removed == [A EXCEPT !.u = RemoveFirst(@, entry)] IN
    IF entry[2] \notin DOMAIN A.qs
    THEN [removed EXCEPT !.res = Raised("AssertionError")]
    ELSE IF entry[1] \notin DOMAIN A.qs[entry[2]].unacked_messages
    THEN [removed EXCEPT !.res = Raised("KeyError")]
    ELSE [removed EXCEPT !.qs[entry[2]] = ack(@, entry[1]),
                         !.acked = Append(@, entry)]

\* a scan that, with multiple set, goes on past the entry of delivery_tag.
RECURSIVE ack_scan_past_target(_, _, _, _, _)
ack_scan_past_target(A, copy, i, delivery_tag, multiple) ==
    IF i > Len(copy) \/ A.res.res # "ok" THEN A
    ELSE IF multiple \/ copy[i][1] = delivery_tag
    THEN IF copy[i][1] = delivery_tag /\ ~multiple
         THEN broker_basic_ack(A, copy[i])
         ELSE ack_scan_past_target(broker_basic_ack(A, copy[i]), copy, i + 1,
                                   delivery_tag, multiple)
    ELSE ack_scan_past_target(A, copy, i + 1, delivery_tag, multiple)

\* a scan that takes every entry as if multiple were set.
RECURSIVE ack_scan_all_before(_, _, _, _, _)
ack_scan_all_before(A, copy, i, delivery_tag, multiple) ==
    IF i > Len(copy) \/ A.res.res # "ok" THEN A
    ELSE IF copy[i][1] = delivery_tag
    THEN broker_basic_ack(A, copy[i])
    ELSE ack_scan_all_before(broker_basic_ack(A, copy[i]), copy, i + 1,
                             delivery_tag, multiple)

RECURSIVE ack_scan(_, _, _, _, _)
ack_scan(A, copy, i, delivery_tag, multiple) ==
    IF i > Len(copy) \/ A.res.res # "ok" THEN A
    ELSE IF multiple \/ copy[i][1] = delivery_tag
    THEN IF copy[i][1] = delivery_tag
         THEN broker_basic_ack(A, copy[i])
         ELSE ack_scan(broker_basic_ack(A, copy[i]), copy, i + 1,
                       delivery_tag, multiple)
    ELSE ack_scan(A, copy, i + 1, delivery_tag, multiple)

\* A basic_ack without the assertion on the delivery tag.
basic_ack_unchecked(c, delivery_tag, multiple) ==
    /\ LET A == ack_scan([u |-> unacked[c], qs |-> queues, acked |-> <<>>,
                          res |-> Ok],
                         unacked[c], 1, delivery_tag, multiple)
       IN  /\ CanKick(Len(A.acked))
           /\ unacked' = [unacked EXCEPT ![c] = A.u]
           /\ queues' = A.qs
           /\ pending' = kick_delivery(pending, queues', Len(A.acked))
           /\ ret' = Ret("basic_ack",
                         [c |-> c, delivery_tag |-> delivery_tag,
                          multiple |-> multiple],
                         Result(A.res.res, [acked |-> A.acked]))
    /\ UNCHANGED <<exchanges, channels, dispatched, qos_prefetch_count,
                   consumers, delivered, minted, nput, mvars, tvars>>

\* A basic_ack whose broker acknowledges without kick_delivery.
basic_ack_without_kick(c, delivery_tag, multiple) ==
    /\ IF delivery_tag \notin {unacked[c][i][1] : i \in 1..Len(unacked[c])}
       THEN /\ ret' = Ret("basic_ack",
                          [c |-> c, delivery_tag |-> delivery_tag,
                           multiple |-> multiple],
                          Raised("AssertionError"))
            /\ UNCHANGED <<queues, unacked>>
       ELSE LET A == ack_scan([u |-> unacked[c], qs |-> queues, acked |-> <<>>,
                               res |-> Ok],
                              unacked[c], 1, delivery_tag, multiple)
            IN  /\ unacked' = [unacked EXCEPT ![c] = A.u]
                /\ queues' = A.qs
                /\ ret' = Ret("basic_ack",
                              [c |-> c, delivery_tag |-> delivery_tag,
                               multiple |-> multiple],
                              Result(A.res.res, [acked |-> A.acked]))
    /\ UNCHANGED <<exchanges, channels, dispatched, qos_prefetch_count,
                   consumers, delivered, pending, minted, nput, mvars, tvars>>

basic_ack(c, delivery_tag, multiple) ==
    /\ IF delivery_tag \notin {unacked[c][i][1] : i \in 1..Len(unacked[c])}
       THEN /\ ret' = Ret("basic_ack",
                          [c |-> c, delivery_tag |-> delivery_tag,
                           multiple |-> multiple],
                          Raised("AssertionError"))
            /\ UNCHANGED <<queues, unacked, pending>>
       ELSE LET A == ack_scan([u |-> unacked[c], qs |-> queues, acked |-> <<>>,
                               res |-> Ok],
                              unacked[c], 1, delivery_tag, multiple)
            IN  /\ CanKick(Len(A.acked))
                /\ unacked' = [unacked EXCEPT ![c] = A.u]
                /\ queues' = A.qs
                /\ pending' = kick_delivery(pending, queues', Len(A.acked))
                /\ ret' = Ret("basic_ack",
                              [c |-> c, delivery_tag |-> delivery_tag,
                               multiple |-> multiple],
                              Result(A.res.res, [acked |-> A.acked]))
    /\ UNCHANGED <<exchanges, channels, dispatched, qos_prefetch_count,
                   consumers, delivered, minted, nput, mvars, tvars>>

(***************************************************************************)
(* The delivery loop: deliver_to_channels, try_deliver_to_channel,         *)
(* FakeAMQPChannel.deliverable and deliver_message.  S is the state one    *)
(* pass works on: the queues, the channels' unacked lists, the delegates'  *)
(* deliveries, the tags minted, any() of the results so far and whether    *)
(* an assertion has ended the pass.                                        *)
(***************************************************************************)
deliverable_at_limit(c, u) ==
    IF qos_prefetch_count[c] < 1 THEN TRUE
    ELSE Len(u[c]) <= qos_prefetch_count[c]

deliverable(c, u) ==
    IF qos_prefetch_count[c] < 1 THEN TRUE
    ELSE Len(u[c]) < qos_prefetch_count[c]

mk_deliver(msg, ctag, dtag) ==
    [consumer_tag |-> ctag, delivery_tag |-> dtag, redelivered |-> FALSE,
     exchange |-> msg.exchange, routing_key |-> msg.routing_key,
     body |-> msg.content]

\* A deliver_message that calls the delegate and files nothing.
deliver_message_unfiled(S, c, dmsg, queue) ==
    [S EXCEPT !.d[c] = Append(@, dmsg)]

deliver_message(S, c, dmsg, queue) ==
    [S EXCEPT !.u[c] = Append(@, <<dmsg.delivery_tag, queue>>),
              !.d[c] = Append(@, dmsg)]

\* A try_deliver_to_channel whose 'return False' comes after the for loop:
\* the consumers are tried in turn until one has a message.
RECURSIVE try_each_consumer(_, _, _)
try_each_consumer(S, c, i) ==
    IF i > Len(consumers[c]) THEN S
    ELSE LET ctag == consumers[c][i].tag
             queue == consumers[c][i].queue
         IN  IF queue \notin DOMAIN S.qs THEN [S EXCEPT !.err = TRUE]
             ELSE IF S.qs[queue].messages = <<>>
             THEN try_each_consumer(S, c, i + 1)
             ELSE LET dtag == gen_longlong(S.n)
                      msg == Head(S.qs[queue].messages)
                      got == [S EXCEPT !.qs[queue] = get_message(@, dtag),
                                       !.n = dtag,
                                       !.any = TRUE]
                  IN  deliver_message(got, c, mk_deliver(msg, ctag, dtag),
                                      queue)

try_deliver_to_channel_each_consumer(S, c) ==
    IF ~deliverable(c, S.u) THEN S ELSE try_each_consumer(S, c, 1)

try_deliver_to_channel(S, c) ==
    IF ~deliverable(c, S.u) THEN S
    ELSE IF consumers[c] = <<>> THEN S
    ELSE LET ctag == consumers[c][1].tag
             queue == consumers[c][1].queue
         IN  IF queue \notin DOMAIN S.qs THEN [S EXCEPT !.err = TRUE]
             ELSE IF S.qs[queue].messages = <<>> THEN S
             ELSE LET dtag == gen_longlong(S.n)
                      msg == Head(S.qs[queue].messages)
                      got == [S EXCEPT !.qs[queue] = get_message(@, dtag),
                                       !.n = dtag,
                                       !.any = TRUE]
                  IN  deliver_message(got, c, mk_deliver(msg, ctag, dtag),
                                      queue)

RECURSIVE deliver_from(_, _)
deliver_from(S, i) ==
    IF i > Len(channels) \/ S.err THEN S
    ELSE deliver_from(try_deliver_to_channel(S, channels[i]), i + 1)

\* a deliver_to_channels that schedules the next pass whatever any() says.
deliver_to_channels_rekicking(loop) ==
    LET S == deliver_from([qs |-> queues, u |-> unacked, d |-> delivered,
                           n |-> minted, any |-> FALSE, err |-> FALSE], 1)
        ran == [loop EXCEPT !.passes = @ + 1]
    IN  /\ queues' = S.qs
        /\ unacked' = S.u
        /\ delivered' = S.d
        /\ minted' = S.n
        /\ pending' = BagAdd(BagRemove(pending, loop), ran)
        /\ ret' = Ret("deliver_to_channels", [d |-> loop],
                      Result("callLater", ran))
        /\ UNCHANGED <<exchanges, channels, dispatched, qos_prefetch_count,
                       consumers, nput, mvars, tvars>>

deliver_to_channels(loop) ==
    LET S == deliver_from([qs |-> queues, u |-> unacked, d |-> delivered,
                           n |-> minted, any |-> FALSE, err |-> FALSE], 1)
        ran == [loop EXCEPT !.passes = @ + 1]
    IN  /\ queues' = S.qs
        /\ unacked' = S.u
        /\ delivered' = S.d
        /\ minted' = S.n
        /\ IF S.err
           THEN /\ pending' = BagRemove(pending, loop)
                /\ ret' = Ret("deliver_to_channels", [d |-> loop],
                              Result("AssertionError", ran))
           ELSE IF S.any
           THEN /\ pending' = BagAdd(BagRemove(pending, loop), ran)
                /\ ret' = Ret("deliver_to_channels", [d |-> loop],
                              Result("callLater", ran))
           ELSE /\ pending' = BagRemove(pending, loop)
                /\ ret' = Ret("deliver_to_channels", [d |-> loop],
                              Result("callback", ran))
        /\ UNCHANGED <<exchanges, channels, dispatched, qos_prefetch_count,
                       consumers, nput, mvars, tvars>>

(***************************************************************************)
(* The specifications.                                                     *)
(***************************************************************************)
(***************************************************************************)
(* The bridge transport's configuration defaults, setup_transport and the  *)
(* reconnect handlers.                                                     *)
(***************************************************************************)
initial_delay == 100
max_reconnect_delay == 3600000
\* factor = 2.7182818284590451 and jitter = 0.11962656472, as fractions.
factor == <<2718, 1000>>
jitter == <<1196, 10000>>

ClientNames == {"message_client", "event_client"}

Min(a, b) == IF a < b THEN a ELSE b

\* random.normalvariate(mu, sigma): a value any whole number of standard
\* deviations from mu, up to MaxSigmas of them either way.
normalvariate(mu, sigma) == {mu + z * sigma : z \in (0 - MaxSigmas)..MaxSigmas}

\* the delays reconnect_api_clients can set from the delay d.
NextDelays(d) ==
    LET grown == Min((d * factor[1]) \div factor[2], max_reconnect_delay) IN
    IF jitter[1] # 0
    THEN normalvariate(grown, (grown * jitter[1]) \div jitter[2])
    ELSE {grown}

\* setup_transport: the state it leaves, connect_api_clients called.
setup_transport ==
    /\ retries = 0
    /\ delay = initial_delay
    /\ reconnect_call = None
    /\ continue_trying = TRUE
    /\ clients = [c \in ClientNames |-> "connecting"]

disconnect_api_clients == [c \in ClientNames |-> "disconnected"]

connect_api_clients == [c \in ClientNames |-> "connecting"]

\* on_connect of a client whose connection is made: reset_reconnect_delay.
connectionMade(client) ==
    /\ clients[client] = "connecting"
    /\ clients' = [clients EXCEPT ![client] = "connected"]
    /\ delay' = initial_delay
    /\ retries' = 0
    /\ reconnect_call' = None
    /\ continue_trying' = TRUE
    /\ ret' = Ret("connectionMade", [client |-> client], Ok)
    /\ UNCHANGED <<broker, mvars, max_retries>>

\* on_disconnect of a client whose connection is lost:
\* reconnect_api_clients(reason).
connectionLost(client) ==
    /\ clients[client] \in {"connecting", "connected"}
    /\ retries < MaxLosses
    /\ clients' = disconnect_api_clients
    /\ ret' = Ret("connectionLost", [client |-> client], Ok)
    /\ IF ~continue_trying
       THEN UNCHANGED <<retries, delay, reconnect_call>>
       ELSE /\ retries' = retries + 1
            /\ IF max_retries # <<>> /\ retries' > max_retries[1]
               THEN UNCHANGED <<delay, reconnect_call>>
               ELSE /\ delay' \in NextDelays(delay)
                    /\ reconnect_call' = "scheduled"
    /\ UNCHANGED <<broker, mvars, continue_trying, max_retries>>

\* the clock reaches the time of the scheduled call: connect_api_clients.
\* self.reconnect_call goes on holding the DelayedCall, now called.
clock_advance ==
    /\ reconnect_call = "scheduled"
    /\ reconnect_call' = "called"
    /\ clients' = connect_api_clients
    /\ ret' = Ret("connect_api_clients", Nothing, Ok)
    /\ UNCHANGED <<broker, mvars, retries, delay, continue_trying,
                   max_retries>>

\* teardown_transport; DelayedCall.cancel raises AlreadyCalled on a call
\* that has run.
teardown_transport ==
    /\ IF reconnect_call = "called"
       THEN /\ ret' = Ret("teardown_transport", Nothing,
                          Raised("AlreadyCalled"))
            /\ UNCHANGED <<reconnect_call, continue_trying, clients>>
       ELSE /\ reconnect_call' = None
            /\ continue_trying' = FALSE
            /\ clients' = disconnect_api_clients
            /\ ret' = Ret("teardown_transport", Nothing, Ok)
    /\ UNCHANGED <<broker, mvars, retries, delay, max_retries>>

vars == <<queues, exchanges, channels, dispatched, qos_prefetch_count,
          consumers, unacked, delivered, pending, minted, nput, ret,
          m_bind, m_rkey, m_result, retries, delay, reconnect_call,
          continue_trying, clients, max_retries>>

Init ==
    /\ BrokerInit
    /\ setup_transport
    /\ max_retries = <<>>
    /\ m_bind = <<>>
    /\ m_rkey = <<>>
    /\ m_result = <<>>

\* The calls the callers make are drawn from a universe U of inputs.
Next(U) ==
    \/ \E c \in U.open : channel_open(c)
    \/ \E x \in U.exchange_declare : exchange_declare(x[1], x[2])
    \/ \E q \in U.queue_declare : queue_declare(q)
    \/ \E x \in U.queue_bind : queue_bind(x[1], x[2], x[3])
    \/ \E x \in U.publish :
          Published < U.max_publish /\ basic_publish(x[1], x[2], x[3])
    \/ \E x \in U.qos : basic_qos(x[1], x[2])
    \/ \E x \in U.consume : basic_consume(x[1], x[2], x[3])
    \/ \E x \in U.cancel : basic_cancel(x[1], x[2])
    \/ \E x \in U.get : basic_get(x[1], x[2])
    \/ \E c \in U.ack, t \in 1..minted, m \in BOOLEAN : basic_ack(c, t, m)
    \/ \E loop \in DOMAIN pending : deliver_to_channels(loop)

A == <<"a">>
B == <<"b">>
Star == <<"*">>

FlowUniverse ==
    [open |-> {1},
     exchange_declare |-> {<<"e", "direct">>},
     queue_declare |-> {"q1"},
     queue_bind |-> {<<"q1", "e", A>>},
     publish |-> {<<"e", A, "X">>},
     max_publish |-> MaxPublish,
     qos |-> {<<1, 0>>, <<1, 1>>},
     consume |-> {<<1, "q1", "c1">>},
     cancel |-> {<<1, "c1">>},
     get |-> {<<1, "q1">>},
     ack |-> {1}]

Spec == Init /\ [][Next(FlowUniverse)]_vars

\* The reactor runs every call that callLater(0, ...) has scheduled.
LoopNext(U) ==
    \/ \E c \in U.open : channel_open(c)
    \/ \E x \in U.exchange_declare : exchange_declare(x[1], x[2])
    \/ \E q \in U.queue_declare : queue_declare(q)
    \/ \E x \in U.queue_bind : queue_bind(x[1], x[2], x[3])
    \/ \E x \in U.publish :
          Published < U.max_publish /\ basic_publish(x[1], x[2], x[3])
    \/ \E x \in U.qos : basic_qos(x[1], x[2])
    \/ \E x \in U.consume : basic_consume(x[1], x[2], x[3])
    \/ \E c \in U.ack, t \in 1..minted, m \in BOOLEAN : basic_ack(c, t, m)
    \/ \E loop \in DOMAIN pending : deliver_to_channels(loop)

SpecLoop ==
    /\ Init
    /\ [][LoopNext(FlowUniverse)]_vars
    /\ WF_broker(\E loop \in DOMAIN pending : deliver_to_channels(loop))

\* A topic exchange from publish to delivery: one queue bound under a
\* pattern, messages published before and after a consumer starts.
TopicNext(U) ==
    \/ \E c \in U.open : channel_open(c)
    \/ \E x \in U.exchange_declare : exchange_declare(x[1], x[2])
    \/ \E q \in U.queue_declare : queue_declare(q)
    \/ \E x \in U.queue_bind : queue_bind(x[1], x[2], x[3])
    \/ \E x \in U.publish :
          Published < U.max_publish /\ basic_publish(x[1], x[2], x[3])
    \/ \E x \in U.consume : basic_consume(x[1], x[2], x[3])
    \/ \E loop \in DOMAIN pending : deliver_to_channels(loop)

AHash == <<"a", ".", "#">>
Hash == <<"#">>

TopicUniverse ==
    [open |-> {1},
     exchange_declare |-> {<<"e", "topic">>},
     queue_declare |-> {"q1"},
     queue_bind |-> {<<"q1", "e", AHash>>, <<"q1", "e", Hash>>,
                     <<"q1", "e", Star>>},
     publish |-> {<<"e", A, "X">>, <<"e", B, "Y">>},
     max_publish |-> MaxPublish,
     consume |-> {<<1, "q1", "c1">>}]

SpecTopic ==
    /\ Init
    /\ [][TopicNext(TopicUniverse)]_vars
    /\ WF_broker(\E loop \in DOMAIN pending : deliver_to_channels(loop))

\* The delivery loop without acknowledgments.
FirstNext(U) ==
    \/ \E c \in U.open : channel_open(c)
    \/ \E x \in U.exchange_declare : exchange_declare(x[1], x[2])
    \/ \E q \in U.queue_declare : queue_declare(q)
    \/ \E x \in U.queue_bind : queue_bind(x[1], x[2], x[3])
    \/ \E x \in U.publish :
          Published < U.max_publish /\ basic_publish(x[1], x[2], x[3])
    \/ \E x \in U.qos : basic_qos(x[1], x[2])
    \/ \E x \in U.consume : basic_consume(x[1], x[2], x[3])
    \/ \E loop \in DOMAIN pending : deliver_to_channels(loop)

\* One channel with two consumers, each on a queue of its own.
FirstUniverse ==
    [open |-> {1},
     exchange_declare |-> {<<"e", "direct">>},
     queue_declare |-> {"q1", "q2"},
     queue_bind |-> {<<"q1", "e", A>>, <<"q2", "e", B>>},
     publish |-> {<<"e", A, "X">>, <<"e", B, "Y">>},
     max_publish |-> MaxPublish,
     qos |-> {<<1, 1>>},
     consume |-> {<<1, "q1", "c1">>, <<1, "q2", "c2">>}]

SpecFirst == Init /\ [][FirstNext(FirstUniverse)]_vars

\* Two channels on one queue: one is delivered to by the loop, the other
\* fetches with basic_get, and both acknowledge.
BookNext(U) ==
    \/ \E c \in U.open : channel_open(c)
    \/ \E x \in U.exchange_declare : exchange_declare(x[1], x[2])
    \/ \E q \in U.queue_declare : queue_declare(q)
    \/ \E x \in U.queue_bind : queue_bind(x[1], x[2], x[3])
    \/ \E x \in U.publish :
          Published < U.max_publish /\ basic_publish(x[1], x[2], x[3])
    \/ \E x \in U.consume : basic_consume(x[1], x[2], x[3])
    \/ \E x \in U.get : basic_get(x[1], x[2])
    \/ \E c \in U.ack, t \in 1..minted, m \in BOOLEAN : basic_ack(c, t, m)
    \/ \E loop \in DOMAIN pending : deliver_to_channels(loop)

BookUniverse ==
    [open |-> {1},
     exchange_declare |-> {<<"e", "direct">>},
     queue_declare |-> {"q1"},
     queue_bind |-> {<<"q1", "e", A>>},
     publish |-> {<<"e", A, "X">>},
     max_publish |-> MaxPublish,
     consume |-> {<<1, "q1", "c1">>},
     get |-> {<<2, "q1">>},
     ack |-> {1, 2}]

SpecBook == Init /\ [][BookNext(BookUniverse)]_vars

\* Routing: the exchange and queue calls, basic_publish and the loop's passes.
RouteNext(U) ==
    \/ \E x \in U.exchange_declare : exchange_declare(x[1], x[2])
    \/ \E q \in U.queue_declare : queue_declare(q)
    \/ \E x \in U.queue_bind : queue_bind(x[1], x[2], x[3])
    \/ \E x \in U.publish :
          Published < U.max_publish /\ basic_publish(x[1], x[2], x[3])
    \/ \E loop \in DOMAIN pending : deliver_to_channels(loop)

RouteUniverse ==
    [exchange_declare |->
         {<<"e", "direct">>, <<"e", "topic">>, <<"e", "fanout">>},
     queue_declare |-> {"q1", "q2", ""},
     queue_bind |-> {<<"q1", "e", A>>, <<"q1", "e", Star>>, <<"q2", "e", Star>>,
                     <<"q1", "nx", A>>},
     publish |-> {<<"e", A, "X">>, <<"e", B, "Y">>, <<"nx", A, "X">>},
     max_publish |-> MaxPublish]

SpecRoute == Init /\ [][RouteNext(RouteUniverse)]_vars

\* Acknowledgment: messages of two queues fetched by basic_get on two
\* channels and acknowledged, with the passes the acknowledgments start.
AckNext(U) ==
    \/ \E x \in U.exchange_declare : exchange_declare(x[1], x[2])
    \/ \E q \in U.queue_declare : queue_declare(q)
    \/ \E x \in U.queue_bind : queue_bind(x[1], x[2], x[3])
    \/ \E x \in U.publish :
          Published < U.max_publish /\ basic_publish(x[1], x[2], x[3])
    \/ \E x \in U.get : basic_get(x[1], x[2])
    \/ \E c \in U.ack, t \in 1..minted, m \in BOOLEAN : basic_ack(c, t, m)
    \/ \E loop \in DOMAIN pending : deliver_to_channels(loop)

AckUniverse ==
    [exchange_declare |-> {<<"e", "direct">>},
     queue_declare |-> {"q1", "q2"},
     queue_bind |-> {<<"q1", "e", A>>, <<"q2", "e", B>>},
     publish |-> {<<"e", A, "X">>, <<"e", B, "X">>},
     max_publish |-> MaxPublish,
     get |-> {<<1, "q1">>, <<1, "q2">>, <<2, "q1">>},
     ack |-> {1, 2}]

SpecAck == Init /\ [][AckNext(AckUniverse)]_vars

MatchNext == MatchRkey /\ UNCHANGED <<bvars, tvars>>

\* the arguments of one call of match_rkey, on a topic exchange of a broker.
InitMatch ==
    /\ BrokerInit
    /\ setup_transport
    /\ max_retries = <<>>
    /\ m_bind \in {Join(w) : w \in WordSeqs(BindWords)}
    /\ m_rkey \in {Join(w) : w \in KeySeqs(KeyWords)}
    /\ m_result = <<>>

SpecMatch == InitMatch /\ [][MatchNext]_vars

\* The bridge transport: connections made and lost, the clock and teardown,
\* with and without a configured max_retries.
BridgeNext ==
    \/ \E client \in ClientNames : connectionMade(client)
    \/ \E client \in ClientNames : connectionLost(client)
    \/ clock_advance
    \/ teardown_transport

InitBridge ==
    /\ BrokerInit
    /\ m_bind = <<>>
    /\ m_rkey = <<>>
    /\ m_result = <<>>
    /\ setup_transport
    /\ max_retries \in {<<>>, <<1>>}

SpecBridge == InitBridge /\ [][BridgeNext]_vars

(***************************************************************************)
(* Flow control.                                                           *)
(***************************************************************************)
\* C1 as stated: a channel whose prefetch limit n is greater than 0 has at
\* most n entries in its unacked list, in every reachable state.
C1_UnackedWithinPrefetch ==
    \A c \in ChannelIds :
        qos_prefetch_count[c] > 0 => Len(unacked[c]) <= qos_prefetch_count[c]

Delivers(c) == Len(delivered'[c]) > Len(delivered[c])

\* C1 amended: the delivery loop keeps to the limit. A pass delivers to a
\* channel with prefetch limit n > 0 only when the channel has fewer than n
\* unacked entries, and leaves it with at most n.
C1_DeliveryWithinPrefetch ==
    [][\A c \in ChannelIds :
          (Delivers(c) /\ qos_prefetch_count[c] > 0)
              => /\ Len(unacked[c]) < qos_prefetch_count[c]
                 /\ Len(unacked'[c]) <= qos_prefetch_count[c]]_vars

\* a pass has just delivered to a channel that is now at its limit, and a
\* message is still ready in the queue its consumer reads.
C1_Witness ==
    \E c \in ChannelIds :
        /\ ret.op = "deliver_to_channels" /\ ret.res = "callLater"
        /\ qos_prefetch_count[c] > 0
        /\ Len(unacked[c]) = qos_prefetch_count[c]
        /\ consumers[c] # <<>>
        /\ queues[consumers[c][1].queue].messages # <<>>

(***************************************************************************)
(* Envelopes.                                                              *)
(***************************************************************************)
\* the envelopes in q's ready list and those in q's unacked map.
Ready(q) == {q.messages[i].uid : i \in 1..Len(q.messages)}

Unacked(q) == {q.unacked_messages[t].uid : t \in DOMAIN q.unacked_messages}

\* the envelopes the queues hold, each with its queue.
Held(qs) ==
    UNION {{q} \X (Ready(qs[q]) \cup Unacked(qs[q])) : q \in DOMAIN qs}

\* the envelopes a basic_ack step acknowledges: those filed in their queue
\* under an entry that the channel's unacked list loses.
Acked ==
    IF ret'.op # "basic_ack" THEN {}
    ELSE LET u == unacked[ret'.args.c] IN
         {<<u[i][2], queues[u[i][2]].unacked_messages[u[i][1]].uid>> :
             i \in {j \in 1..Len(u) :
                       /\ u[j] \notin SeqRange(unacked'[ret'.args.c])
                       /\ u[j][2] \in DOMAIN queues
                       /\ u[j][1] \in DOMAIN queues[u[j][2]].unacked_messages}}

\* C2: every envelope a publish has put in a queue is, until a basic_ack
\* acknowledges it, in exactly one place: once in the ready list of its queue
\* or once in that queue's unacked map, never in both, never twice in
\* either, never in two queues; and it leaves its queue by nothing but its
\* acknowledgment.
C2_EnvelopeInOnePlace ==
    /\ [](\A q \in DOMAIN queues :
            /\ Cardinality(Ready(queues[q])) = Len(queues[q].messages)
            /\ Cardinality(Unacked(queues[q]))
                  = Cardinality(DOMAIN queues[q].unacked_messages)
            /\ Ready(queues[q]) \cap Unacked(queues[q]) = {}
            /\ \A r \in DOMAIN queues \ {q} :
                  (Ready(queues[q]) \cup Unacked(queues[q]))
                      \cap (Ready(queues[r]) \cup Unacked(queues[r])) = {})
    /\ [][/\ Held(queues) \ Acked \subseteq Held(queues')
          /\ (nput + 1)..nput' \subseteq {h[2] : h \in Held(queues')}]_vars

\* a queue that holds one envelope ready and another unacknowledged, after a
\* delivery or a basic_get has moved the latter.
C2_Witness ==
    /\ ret.op \in {"deliver_to_channels", "basic_get"}
    /\ \E q \in DOMAIN queues :
          Ready(queues[q]) # {} /\ Unacked(queues[q]) # {}

(***************************************************************************)
(* Acknowledgment.                                                         *)
(***************************************************************************)
Tags(u) == {u[i][1] : i \in 1..Len(u)}

\* the place of the entry of tag T in the unacked list u.
TagIndex(u, T) ==
    CHOOSE k \in 1..Len(u) : u[k][1] = T /\ \A j \in 1..(k - 1) : u[j][1] # T

\* the step is basic_ack(T, multiple) on channel c with T in c's unacked list.
Acks(c, T, multiple) ==
    /\ ret'.op = "basic_ack"
    /\ ret'.args = [c |-> c, delivery_tag |-> T, multiple |-> multiple]
    /\ T \in Tags(unacked[c])

\* the queues without the unacked entries of the channel entries in gone.
Acknowledged(qs, gone) ==
    [q \in DOMAIN qs |->
        [qs[q] EXCEPT !.unacked_messages =
            [t \in DOMAIN @ \ {e[1] : e \in {x \in SeqRange(gone) : x[2] = q}}
                |-> @[t]]]]

\* C3: basic_ack(T, multiple=true) with T in the channel's unacked list
\* removes from the channel every entry delivered at or before T and none
\* delivered after T, and acknowledges exactly those entries against their
\* queues, in delivery order; nothing else of a queue or of another channel
\* changes.
C3_MultipleAckUpToTag ==
    [][\A c \in ChannelIds : \A T \in 1..minted :
          Acks(c, T, TRUE) =>
              LET k == TagIndex(unacked[c], T) IN
              /\ ret'.res = "ok"
              /\ ret'.val.acked = SubSeq(unacked[c], 1, k)
              /\ unacked' = [unacked EXCEPT ![c] =
                                SubSeq(@, k + 1, Len(@))]
              /\ queues' = Acknowledged(queues, SubSeq(unacked[c], 1, k))]_vars

\* one basic_ack with multiple=true has acknowledged two entries, of two
\* queues.
C3_Witness ==
    /\ ret.op = "basic_ack" /\ ret.args.multiple /\ ret.res = "ok"
    /\ Len(ret.val.acked) >= 2
    /\ ret.val.acked[1][2] # ret.val.acked[2][2]

\* C4: basic_ack(T, multiple=false) with T in the channel's unacked list
\* removes exactly the entry of T from the channel's list and from its
\* queue's unacked map; every other entry of the channel, of the other
\* channels and of every queue stays, in the same order.
C4_SingleAckFrame ==
    [][\A c \in ChannelIds : \A T \in 1..minted :
          Acks(c, T, FALSE) =>
              LET k == TagIndex(unacked[c], T) IN
              /\ ret'.res = "ok"
              /\ ret'.val.acked = <<unacked[c][k]>>
              /\ unacked' = [unacked EXCEPT ![c] = RemoveAt(@, k)]
              /\ queues' = Acknowledged(queues, <<unacked[c][k]>>)]_vars

\* a basic_ack with multiple=false has acknowledged a tag and left an entry
\* delivered before it in the channel's list.
C4_Witness ==
    /\ ret.op = "basic_ack" /\ ~ret.args.multiple /\ ret.res = "ok"
    /\ \E i \in 1..Len(unacked[ret.args.c]) :
          unacked[ret.args.c][i][1] < ret.args.delivery_tag

(***************************************************************************)
(* The delivery loop.                                                      *)
(***************************************************************************)
\* unless the callers' calls go on changing the broker for ever, the
\* reactor's queue of passes empties for good.
LoopsEnd ==
    \/ []<><<ret'.op # "deliver_to_channels">>_broker
    \/ <>[](pending = EmptyDict)

CouldDeliver(c) ==
    /\ c \in SeqRange(channels)
    /\ deliverable(c, unacked)
    /\ \E i \in 1..Len(consumers[c]) :
          /\ consumers[c][i].queue \in DOMAIN queues
          /\ consumers[c][i].tag \in queues[consumers[c][i].queue].consumers
          /\ queues[consumers[c][i].queue].messages # <<>>

\* C7: whenever no pass of the delivery loop is scheduled, no open channel
\* is deliverable with a consumer registered on a queue that holds a ready
\* message.
C7_WorkConserving ==
    pending = EmptyDict => \A c \in ChannelIds : ~CouldDeliver(c)

(***************************************************************************)
(* Routing.                                                                *)
(***************************************************************************)
\* C8: basic_publish to an exchange that is not declared raises nothing,
\* appends the body to the audit log under the exchange and the routing key,
\* and changes no queue.
C8_UndeclaredExchangeDrops ==
    [][(ret'.op = "basic_publish"
            /\ ret'.args.exchange \notin DOMAIN exchanges) =>
          /\ ret'.res = "ok"
          /\ dict_get_get(dispatched', ret'.args.exchange,
                          ret'.args.routing_key)
                = Append(get_dispatched(ret'.args.exchange,
                                        ret'.args.routing_key),
                         ret'.args.body)
          /\ queues' = queues]_vars

\* a message has been published to the exchange "nx", which nobody has
\* declared, while a queue is bound on a declared exchange under its key.
C8_Witness ==
    /\ ret.op = "basic_publish" /\ ret.args.exchange = "nx" /\ ret.res = "ok"
    /\ "nx" \notin DOMAIN exchanges
    /\ get_dispatched("nx", ret.args.routing_key) # <<>>
    /\ \E x \in DOMAIN exchanges :
          ret.args.routing_key \in DOMAIN exchanges[x].binds

\* q is bound on the exchange ex under the key identical to routing_key.
BoundUnder(ex, routing_key, q) ==
    routing_key \in DOMAIN ex.binds /\ q \in ex.binds[routing_key]

\* the queue after is the queue before with one envelope of the publish put
\* at the end of its ready list.
Enqueues(before, after, exchange, routing_key, body) ==
    /\ Len(after.messages) = Len(before.messages) + 1
    /\ SubSeq(after.messages, 1, Len(before.messages)) = before.messages
    /\ after.messages[Len(after.messages)].exchange = exchange
    /\ after.messages[Len(after.messages)].routing_key = routing_key
    /\ after.messages[Len(after.messages)].content = body
    /\ after.unacked_messages = before.unacked_messages
    /\ after.consumers = before.consumers

\* C9: a basic_publish with routing key k on a direct exchange enqueues the
\* message once in every queue bound under the pattern identical to k, and
\* leaves every other queue as it is, whatever other patterns it is bound
\* under.
C9_DirectRoutesByIdenticalKey ==
    [][(/\ ret'.op = "basic_publish"
        /\ ret'.args.exchange \in DOMAIN exchanges
        /\ exchanges[ret'.args.exchange].exchange_type = "direct") =>
          \A q \in DOMAIN queues :
              IF BoundUnder(exchanges[ret'.args.exchange],
                            ret'.args.routing_key, q)
              THEN Enqueues(queues[q], queues'[q], ret'.args.exchange,
                            ret'.args.routing_key, ret'.args.body)
              ELSE queues'[q] = queues[q]]_vars

\* a publish with key "a" on the direct exchange has reached q1, bound
\* under "a", and not q2, bound under "*" alone.
C9_Witness ==
    /\ ret.op = "basic_publish" /\ ret.args.routing_key = A
    /\ ret.args.exchange \in DOMAIN exchanges
    /\ LET ex == exchanges[ret.args.exchange] IN
          /\ ex.exchange_type = "direct"
          /\ BoundUnder(ex, A, "q1")
          /\ BoundUnder(ex, Star, "q2") /\ ~BoundUnder(ex, A, "q2")
    /\ queues["q1"].messages # <<>>
    /\ queues["q2"].messages = <<>>

(***************************************************************************)
(* Topic patterns.                                                         *)
(***************************************************************************)
\* the AMQP wildcard rule on word sequences: "*" matches exactly one word,
\* "#" matches zero or more words, every other word matches itself.
RECURSIVE AmqpMatch(_, _)
AmqpMatch(pattern, key) ==
    IF pattern = <<>> THEN key = <<>>
    ELSE IF Head(pattern) = <<"#">>
    THEN \/ AmqpMatch(Tail(pattern), key)
         \/ key # <<>> /\ AmqpMatch(pattern, Tail(key))
    ELSE /\ key # <<>>
         /\ Head(pattern) = <<"*">> \/ Head(pattern) = Head(key)
         /\ AmqpMatch(Tail(pattern), Tail(key))

\* C10: for every binding pattern and routing key of up to MaxWords words,
\* what match_rkey returns is what the AMQP wildcard rule says, the pattern
\* "#" alone, which matches every routing key, included.
C10_MatchIsAmqpRule ==
    m_result # <<>> =>
        m_result[1] = AmqpMatch(Split(m_bind), Split(m_rkey))

(***************************************************************************)
(* C11                                                                     *)
(***************************************************************************)
Literal(word) == word \notin {<<"*">>, <<"#">>}
Literals(words) == \A i \in DOMAIN words : Literal(words[i])

\* The pattern is p.#, p.#.q or #.q: literal words around one '#', with at
\* least one literal word.
AroundHash(pattern, h) ==
    /\ h \in DOMAIN pattern
    /\ pattern[h] = <<"#">>
    /\ Len(pattern) > 1
    /\ Literals(SubSeq(pattern, 1, h - 1))
    /\ Literals(SubSeq(pattern, h + 1, Len(pattern)))

\* The key starts with the words before the '#' and ends with the words
\* after it, with any words (none included) in between.
FitsAround(pattern, h, key) ==
    LET after == Len(pattern) - h IN
    /\ Len(key) >= Len(pattern) - 1
    /\ SubSeq(key, 1, h - 1) = SubSeq(pattern, 1, h - 1)
    /\ SubSeq(key, Len(key) - after + 1, Len(key))
           = SubSeq(pattern, h + 1, Len(pattern))

\* C11: in topic matching '#' consumes its adjacent dot: p.# matches p and
\* every key p.w1...wn, p.#.q matches p.q (and p.w1...wn.q), #.q matches q
\* and every key ending in .q; p.*.q matches exactly the three-word keys
\* p.w.q, so a.*.c matches a.b.c and does not match a.b.b.c.
C11_HashConsumesItsDot ==
    m_result # <<>> =>
        LET pattern == Split(m_bind)
            key == Split(m_rkey)
        IN  /\ \A h \in DOMAIN pattern :
                   AroundHash(pattern, h) /\ FitsAround(pattern, h, key)
                       => m_result[1] = TRUE
            /\ ( /\ Len(pattern) = 3
                 /\ pattern[2] = <<"*">>
                 /\ Literal(pattern[1])
                 /\ Literal(pattern[3]) )
                   => m_result[1] = ( /\ Len(key) = 3
                                      /\ key[1] = pattern[1]
                                      /\ key[3] = pattern[3] )

\* p.# has matched the key p, and p.*.q has rejected a four-word key
\* p.w.w.q: both are reached.
C11_Witness ==
    /\ m_result = <<TRUE>>
    /\ Split(m_bind) = <<<<"a">>, <<"#">>>>
    /\ Split(m_rkey) = <<<<"a">>>>

C11_WitnessStar ==
    /\ m_result = <<FALSE>>
    /\ Split(m_bind) = <<<<"a">>, <<"*">>, <<"b">>>>
    /\ Split(m_rkey) = <<<<"a">>, <<"b">>, <<"b">>, <<"b">>>>

(***************************************************************************)
(* C12                                                                     *)
(***************************************************************************)
\* The number of delivery passes the step has scheduled with callLater.
Kicks == BagSize(pending') - BagSize(pending)

PublishedToDeclared ==
    /\ ret'.op = "basic_publish"
    /\ ret'.args.exchange \in DOMAIN exchanges

AckedSome == ret'.op = "basic_ack" /\ ret'.res = "ok"

NewConsumer == ret'.op = "basic_consume" /\ ret'.res = "consume-ok"

NewBinding == ret'.op = "queue_bind" /\ ret'.res = "ok"

\* C12, as stated: each of publish, ack, new consumer and new queue binding
\* schedules a delivery-loop pass.
C12_FourTriggers ==
    [][PublishedToDeclared \/ AckedSome \/ NewConsumer \/ NewBinding
          => Kicks >= 1]_vars

\* C12: publish to a declared exchange and a new consumer schedule one
\* delivery-loop pass each and ack one for each entry it acknowledges; a new
\* queue binding schedules none.
C12_ThreeTriggers ==
    [][ /\ PublishedToDeclared \/ NewConsumer => Kicks = 1
        /\ AckedSome => Kicks = Len(ret'.val.acked) /\ Kicks >= 1
        /\ NewBinding => pending' = pending ]_vars

\* A queue has just been bound and no delivery pass is scheduled.
C12_Witness ==
    /\ ret.op = "queue_bind"
    /\ ret.res = "ok"
    /\ pending = EmptyDict

(***************************************************************************)
(* C13                                                                     *)
(***************************************************************************)
Redeclares == ret'.op = "exchange_declare"
                 /\ ret'.args.exchange \in DOMAIN exchanges

\* C13: a declared exchange keeps its type in every step; exchange_declare
\* of an existing name fails when the type differs from the declared one
\* (a type other than direct and topic included) and succeeds when it is the
\* same, and either way leaves the exchange, its type and its bindings as
\* they were.
C13_ExchangeTypeIsFixed ==
    [][ /\ \A e \in DOMAIN exchanges :
               /\ e \in DOMAIN exchanges'
               /\ exchanges'[e].exchange_type = exchanges[e].exchange_type
        /\ Redeclares =>
               /\ exchanges' = exchanges
               /\ ret'.res =
                      IF ret'.args.exchange_type
                            = exchanges[ret'.args.exchange].exchange_type
                      THEN "ok" ELSE "AssertionError" ]_vars

\* An exchange with a binding has been declared again with the other of the
\* two types: the call failed.
C13_Witness ==
    /\ ret.op = "exchange_declare"
    /\ ret.res = "AssertionError"
    /\ ret.args.exchange_type \in {"direct", "topic"}
    /\ ret.args.exchange \in DOMAIN exchanges
    /\ exchanges[ret.args.exchange].exchange_type # ret.args.exchange_type
    /\ exchanges[ret.args.exchange].binds # EmptyDict

(***************************************************************************)
(* C14                                                                     *)
(***************************************************************************)
TagsOf(cs) == {cs[i].tag : i \in DOMAIN cs}

ConsumingFrom(cs, tag) == {cs[i].queue : i \in {j \in DOMAIN cs : cs[j].tag = tag}}

\* The consumer tags of the deliveries the step makes to channel c.
DeliveredTags(c) ==
    {delivered'[c][i].consumer_tag :
        i \in (Len(delivered[c]) + 1)..Len(delivered'[c])}

\* C14: basic_cancel(tag) returns ok; the tag is then neither in the
\* channel's consumers nor in the consumer set of the queue it consumed
\* from, and a tag unknown to the channel changes no state.  A delivery to
\* a channel, whichever pass makes it, carries a tag that is in the
\* channel's consumers when the pass runs, and only basic_consume puts a
\* tag there: no delivery after the cancel carries the tag.
C14_CancelIsImmediate ==
    [][ /\ ret'.op = "basic_cancel" =>
               LET c == ret'.args.c
                   tag == ret'.args.tag
               IN  /\ ret'.res = "ok"
                   /\ tag \notin TagsOf(consumers'[c])
                   /\ \A q \in ConsumingFrom(consumers[c], tag)
                                \cap DOMAIN queues :
                          tag \notin queues'[q].consumers
                   /\ tag \notin TagsOf(consumers[c]) => broker' = broker
        /\ \A c \in ChannelIds :
               /\ DeliveredTags(c) \subseteq TagsOf(consumers[c])
               /\ DeliveredTags(c) \subseteq TagsOf(consumers'[c])
               /\ TagsOf(consumers'[c]) \ TagsOf(consumers[c]) # {}
                      => ret'.op = "basic_consume" /\ ret'.args.c = c ]_vars

\* The consumer has had a delivery and is cancelled while a message is ready
\* and a delivery pass is scheduled.
C14_Witness ==
    /\ ret.op = "basic_cancel"
    /\ delivered[ret.args.c] # <<>>
    /\ ret.args.tag \in {delivered[ret.args.c][i].consumer_tag :
                             i \in DOMAIN delivered[ret.args.c]}
    /\ ret.args.tag \notin TagsOf(consumers[ret.args.c])
    /\ pending # EmptyDict
    /\ \E q \in DOMAIN queues : queues[q].messages # <<>>

(***************************************************************************)
(* C15                                                                     *)
(***************************************************************************)
\* The step is a basic_get on a declared queue that holds no ready message.
GetsFromEmpty ==
    /\ ret'.op = "basic_get"
    /\ ret'.args.queue \in DOMAIN queues
    /\ queues[ret'.args.queue].messages = <<>>

\* C15: basic_get on an existing queue with no ready message returns
\* get-empty, raises nothing, and leaves the queue's ready list and unacked
\* map and the channel's unacked list as they were.
C15_GetFromEmptyQueue ==
    [][GetsFromEmpty =>
          /\ ret'.res = "get-empty"
          /\ queues' = queues
          /\ unacked' = unacked]_vars

\* basic_get has found nothing ready in a queue that holds an
\* unacknowledged message, on a channel that has an unacknowledged delivery.
C15_Witness ==
    /\ ret.op = "basic_get"
    /\ ret.res = "get-empty"
    /\ queues[ret.args.queue].unacked_messages # EmptyDict
    /\ unacked[ret.args.c] # <<>>

(***************************************************************************)
(* C16                                                                     *)
(***************************************************************************)
\* The step is a basic_get on a declared queue that holds a ready message.
GetsFromReady ==
    /\ ret'.op = "basic_get"
    /\ ret'.args.queue \in DOMAIN queues
    /\ queues[ret'.args.queue].messages # <<>>

\* C16: basic_get on a queue that holds a ready message pops exactly the
\* head message of that queue, appends (delivery tag, queue) to the calling
\* channel's unacked list, and returns a message of kind "get-ok" carrying
\* that delivery tag, the exchange, the routing key and the body.
C16_GetReturnsGetOk ==
    [][GetsFromReady =>
          LET c == ret'.args.c
              queue == ret'.args.queue
              head == Head(queues[queue].messages)
              got == ret'.val
          IN  /\ queues'[queue].messages = Tail(queues[queue].messages)
              /\ \A q \in DOMAIN queues \ {queue} :
                     queues'[q].messages = queues[q].messages
              /\ ret'.res = "get-ok"
              /\ unacked' = [unacked EXCEPT
                                ![c] = Append(@, <<got.delivery_tag, queue>>)]
              /\ got.exchange = head.exchange
              /\ got.routing_key = head.routing_key
              /\ got.body = head.content]_vars

(***************************************************************************)
(* C17                                                                     *)
(***************************************************************************)
\* A consumer has just been started on the open channel c, whose prefetch
\* count is 1 and which has nothing unacknowledged, on a queue that holds
\* two ready messages.
StartedWithTwoReady(c) ==
    /\ ret.op = "basic_consume" /\ ret.res = "consume-ok" /\ ret.args.c = c
    /\ c \in SeqRange(channels)
    /\ qos_prefetch_count[c] = 1
    /\ unacked[c] = <<>> /\ delivered[c] = <<>>
    /\ Len(queues[ret.args.queue].messages) = 2

\* The first delivery to c has just been acknowledged and the second
\* message is still ready.
FirstAcked(c) ==
    /\ ret.op = "basic_ack" /\ ret.res = "ok" /\ ret.args.c = c
    /\ Len(delivered[c]) = 1
    /\ unacked[c] = <<>>
    /\ qos_prefetch_count[c] = 1
    /\ consumers[c] # <<>>
    /\ consumers[c][1].queue \in DOMAIN queues
    /\ queues[consumers[c][1].queue].messages # <<>>

SecondDelivered(c) ==
    /\ Len(delivered[c]) >= 2
    /\ delivered[c][2].consumer_tag = delivered[c][1].consumer_tag

\* C17: with prefetch 1 and two messages ready, a consumer started on the
\* channel gets a delivery; while the channel's prefetch is 1 and a delivery
\* is unacknowledged no pass delivers to it again; once the first delivery is
\* acknowledged the second message is eventually delivered to the same
\* consumer, whether or not anything is published or consumed after.
C17_SecondAfterAck ==
    /\ \A c \in FlowUniverse.open :
           StartedWithTwoReady(c) ~> Len(delivered[c]) >= 1
    /\ [][\A c \in ChannelIds :
              qos_prefetch_count[c] = 1 /\ unacked[c] # <<>>
                  => ~Delivers(c)]_vars
    /\ \A c \in FlowUniverse.open : FirstAcked(c) ~> SecondDelivered(c)

\* The second message has been delivered after the first was acknowledged:
\* two deliveries with one tag, one of them unacknowledged, at prefetch 1.
C17_Witness ==
    \E c \in ChannelIds :
        /\ ret.op = "deliver_to_channels"
        /\ qos_prefetch_count[c] = 1
        /\ SecondDelivered(c)
        /\ Len(delivered[c]) = 2
        /\ unacked[c] = <<<<delivered[c][2].delivery_tag,
                            consumers[c][1].queue>>>>

(***************************************************************************)
(* C18                                                                     *)
(***************************************************************************)
\* The patterns under which the queue q is bound to the exchange ex.
Patterns(ex, q) == {bind \in DOMAIN ex.binds : q \in ex.binds[bind]}

NoConsumer == \A c \in ChannelIds : consumers[c] = <<>>

\* The step publishes to a topic exchange, before any consumer exists, with
\* a key that matches the single pattern under which q is bound.
PublishesMatching(q) ==
    /\ ret'.op = "basic_publish"
    /\ ret'.args.exchange \in DOMAIN exchanges
    /\ exchanges[ret'.args.exchange].exchange_type = "topic"
    /\ NoConsumer
    /\ \E bind \in DOMAIN exchanges[ret'.args.exchange].binds :
          /\ Patterns(exchanges[ret'.args.exchange], q) = {bind}
          /\ AmqpMatch(Split(bind), Split(ret'.args.routing_key))

\* A consumer has just been registered on q from the opened channel c, and
\* the message at the head of q has the given body.
ConsumesWithReady(c, q, body) ==
    /\ ret.op = "basic_consume" /\ ret.res = "consume-ok"
    /\ ret.args.c = c /\ ret.args.queue = q
    /\ c \in SeqRange(channels)
    /\ queues[q].messages # <<>>
    /\ Head(queues[q].messages).content = body

DeliveredBody(c, body) ==
    \E i \in DOMAIN delivered[c] : delivered[c][i].body = body

RECURSIVE Deliveries(_)
Deliveries(C) ==
    IF C = {} THEN 0
    ELSE LET c == CHOOSE x \in C : TRUE IN
         Len(delivered[c]) + Deliveries(C \ {c})

\* C18: a message published to a topic exchange with a key matching the
\* queue's single binding pattern, before any consumer exists, is put in
\* the queue and stays there; once a consumer is registered on the queue
\* from an opened channel it is eventually delivered to that consumer, and
\* exactly once: every envelope put in a queue is ready or has had one
\* delivery.
C18_TopicDeliveredOnce ==
    /\ [][\A q \in DOMAIN queues :
              PublishesMatching(q) =>
                  Enqueues(queues[q], queues'[q], ret'.args.exchange,
                           ret'.args.routing_key, ret'.args.body)]_vars
    /\ [][NoConsumer => \A q \in DOMAIN queues :
              /\ q \in DOMAIN queues'
              /\ Len(queues'[q].messages) >= Len(queues[q].messages)]_vars
    /\ \A x \in TopicUniverse.consume, y \in TopicUniverse.publish :
           ConsumesWithReady(x[1], x[2], y[3]) ~> DeliveredBody(x[1], y[3])
    /\ [](Deliveries(ChannelIds) + TotalReady(queues) = nput)

(***************************************************************************)
(* C19                                                                     *)
(***************************************************************************)
\* The step is a basic_ack of a delivery tag that is not in the calling
\* channel's unacked list.
AcksUnknownTag ==
    /\ ret'.op = "basic_ack"
    /\ ret'.args.delivery_tag \notin
           {unacked[ret'.args.c][i][1] : i \in DOMAIN unacked[ret'.args.c]}

\* C19: basic_ack of a delivery tag that is not in the calling channel's
\* unacked list fails with an assertion, with multiple set or not, and
\* leaves every channel's unacked list and every queue as they were.
C19_UnknownTagAsserts ==
    [][AcksUnknownTag =>
          /\ ret'.res = "AssertionError"
          /\ unacked' = unacked
          /\ queues' = queues]_vars

\* A channel that holds an unacknowledged delivery has failed to
\* acknowledge, with multiple set, a tag that is in another channel's
\* unacked list.
C19_Witness ==
    /\ ret.op = "basic_ack"
    /\ ret.res = "AssertionError"
    /\ ret.args.multiple
    /\ unacked[ret.args.c] # <<>>
    /\ \E c \in ChannelIds \ {ret.args.c} :
          \E i \in DOMAIN unacked[c] : unacked[c][i][1] = ret.args.delivery_tag

(***************************************************************************)
(* C20                                                                     *)
(***************************************************************************)
\* The step is the loss of an established streaming connection while
\* retrying is enabled.
LosesConnection ==
    /\ ret'.op = "connectionLost"
    /\ clients[ret'.args.client] = "connected"
    /\ continue_trying

\* The step re-establishes the last of the connections that the scheduled
\* reconnect has opened.
Reestablishes ==
    /\ ret'.op = "connectionMade"
    /\ \A c \in ClientNames : clients'[c] = "connected"

\* C20: when a streaming connection is lost while retrying is enabled, the
\* retry counter becomes 1, the delay becomes greater than the configured
\* initial delay and a reconnect call is scheduled; once the scheduled
\* reconnect has fired and the connections are re-established, the delay is
\* the initial delay again, the retry counter is 0 and no reconnect call is
\* recorded.
C20_BacksOffThenResets ==
    [][ /\ LosesConnection =>
               /\ retries' = 1
               /\ delay' > initial_delay
               /\ reconnect_call' = "scheduled"
        /\ Reestablishes =>
               /\ delay' = initial_delay
               /\ retries' = 0
               /\ reconnect_call' = None ]_vars

(***************************************************************************)
(* C21                                                                     *)
(***************************************************************************)
\* The channel c has consumers and the queue of the first of them, in the
\* order the dict iterates, is declared and holds no ready message.
FirstConsumerIdle(c) ==
    /\ consumers[c] # <<>>
    /\ consumers[c][1].queue \in DOMAIN queues
    /\ queues[consumers[c][1].queue].messages = <<>>

\* C21: in one delivery pass each open channel gets at most one delivery, a
\* channel that is not open or not deliverable gets none, and only the
\* first consumer of the channel is tried: a delivery carries the first
\* consumer's tag and the head message of its queue, and when that queue is
\* empty the channel gets nothing, whatever its other consumers' queues
\* hold.
C21_FirstConsumerOnly ==
    [][\A c \in ChannelIds :
          /\ Len(delivered'[c]) <= Len(delivered[c]) + 1
          /\ c \notin SeqRange(channels) \/ ~deliverable(c, unacked)
                 => delivered'[c] = delivered[c]
          /\ FirstConsumerIdle(c) => delivered'[c] = delivered[c]
          /\ Delivers(c) =>
                 LET first == consumers[c][1]
                     head == Head(queues[first.queue].messages)
                     dmsg == delivered'[c][Len(delivered'[c])]
                 IN  /\ ret'.op = "deliver_to_channels"
                     /\ dmsg.consumer_tag = first.tag
                     /\ dmsg.body = head.content
                     /\ dmsg.routing_key = head.routing_key
                     /\ queues'[first.queue].messages
                            = Tail(queues[first.queue].messages)]_vars

\* A loop has ended without a delivery to a channel that is open and
\* deliverable, whose first consumer's queue is empty and whose second
\* consumer's queue holds a ready message.
C21_Witness ==
    \E c \in SeqRange(channels) :
        /\ ret.op = "deliver_to_channels" /\ ret.res = "callback"
        /\ deliverable(c, unacked)
        /\ delivered[c] = <<>>
        /\ Len(consumers[c]) = 2
        /\ FirstConsumerIdle(c)
        /\ consumers[c][2].queue \in DOMAIN queues
        /\ queues[consumers[c][2].queue].messages # <<>>

(***************************************************************************)
(* C22                                                                     *)
(***************************************************************************)
\* The ready list after is the ready list before without some messages at
\* its head and with some messages more at its tail.
HeadOutTailIn(before, after) ==
    \E k \in 0..Len(before) :
        /\ Len(after) >= Len(before) - k
        /\ SubSeq(after, 1, Len(before) - k) = SubSeq(before, k + 1, Len(before))

\* The envelopes of q are in the order they were enqueued in: the ready
\* list from head to tail, and every handed-out envelope before every ready
\* one.
InEnqueueOrder(q) ==
    /\ \A i, j \in DOMAIN q.messages :
           i < j => q.messages[i].uid < q.messages[j].uid
    /\ \A t \in DOMAIN q.unacked_messages : \A i \in DOMAIN q.messages :
           q.unacked_messages[t].uid < q.messages[i].uid

\* C22: the messages of one queue are handed out in the order they were
\* enqueued in, by the delivery loop and by basic_get alike: a message
\* leaves the ready list at its head only and enters it at its tail only,
\* and of two messages of a queue the one enqueued first is handed out
\* first.
C22_QueueIsFifo ==
    /\ [](\A q \in DOMAIN queues : InEnqueueOrder(queues[q]))
    /\ [][\A q \in DOMAIN queues :
              /\ q \in DOMAIN queues'
              /\ HeadOutTailIn(queues[q].messages, queues'[q].messages)]_vars

\* Two messages of one queue have been handed out, one by the delivery loop
\* and one by basic_get, and both are unacknowledged.
C22_Witness ==
    /\ ret.op \in {"deliver_to_channels", "basic_get"}
    /\ \E q \in DOMAIN queues :
          Cardinality(DOMAIN queues[q].unacked_messages) >= 2
    /\ \E c \in ChannelIds :
          /\ delivered[c] # <<>>
          /\ Len(unacked[c]) > Len(delivered[c])

(***************************************************************************)
(* C23                                                                     *)
(***************************************************************************)
\* The places of the tag T of queue q in the channels' unacked lists.
EntriesOf(T, q) ==
    {<<c, i>> \in ChannelIds \X (1..minted) :
        i <= Len(unacked[c]) /\ unacked[c][i] = <<T, q>>}

\* C23: the channels' and the queues' acknowledgment bookkeeping agree in
\* every reachable state: every (delivery tag, queue) entry of a channel's
\* unacked list names a declared queue whose unacked map has the tag, and
\* every tag of a queue's unacked map is in exactly one entry of exactly one
\* channel's unacked list.
C23_BookkeepingAgrees ==
    /\ \A c \in ChannelIds : \A i \in DOMAIN unacked[c] :
           /\ unacked[c][i][2] \in DOMAIN queues
           /\ unacked[c][i][1]
                  \in DOMAIN queues[unacked[c][i][2]].unacked_messages
    /\ \A q \in DOMAIN queues : \A T \in DOMAIN queues[q].unacked_messages :
           Cardinality(EntriesOf(T, q)) = 1

\* Each of two channels holds an unacknowledged message of the same queue,
\* one delivered by the loop and one fetched.
C23_Witness ==
    /\ \A c \in ChannelIds : unacked[c] # <<>>
    /\ \E c \in ChannelIds : delivered[c] # <<>>
    /\ \E q \in DOMAIN queues :
          Cardinality(DOMAIN queues[q].unacked_messages) = 2

(***************************************************************************)
(* C24                                                                     *)
(***************************************************************************)
\* The step is a basic_consume that fails.
ConsumeFails == ret'.op = "basic_consume" /\ ret'.res = "AssertionError"

\* C24: a basic_consume that fails, for a queue that does not exist or for
\* a tag the channel already uses, leaves the broker and the channel's
\* consumers as they were, and no delivery pass fails on a missing queue.
C24_FailedConsumeLeavesNoTrace ==
    /\ [][ConsumeFails => broker' = broker]_vars
    /\ [](ret.op = "deliver_to_channels" => ret.res # "AssertionError")

(***************************************************************************)
(* C25                                                                     *)
(***************************************************************************)
\* The step is a basic_publish to a declared topic exchange.
PublishesToTopic ==
    /\ ret'.op = "basic_publish"
    /\ ret'.args.exchange \in DOMAIN exchanges
    /\ exchanges[ret'.args.exchange].exchange_type = "topic"

\* C25: one publish to a topic exchange puts at most one copy of the
\* message in any queue, also in a queue that is bound to the exchange
\* under several patterns that all match the routing key.
C25_OneCopyPerQueue ==
    [][PublishesToTopic =>
          \A q \in DOMAIN queues :
              Len(queues'[q].messages) <= Len(queues[q].messages) + 1]_vars

(***************************************************************************)
(* C26                                                                     *)
(***************************************************************************)
\* The step is one pass of a delivery loop.
PassRuns == ret'.op = "deliver_to_channels"

\* the envelopes a step takes from q's ready list.
Taken(q) == Ready(queues[q]) \ Ready(queues'[q])

\* the channels a step delivers to.
Progress == {c \in ChannelIds : Delivers(c)}

\* C26: with several delivery loops scheduled at once and their passes
\* interleaved with further operations, no envelope is delivered twice (an
\* envelope taken from a ready list never returns to one, and a pass hands
\* each envelope it takes to one channel), no pass takes a channel over its
\* prefetch limit, a pass schedules the next pass of its loop exactly when
\* it delivered something, and a loop leaves the reactor's queue only by
\* firing its Deferred, which it does once, in the pass that delivered
\* nothing.
C26_InterleavedLoops ==
    /\ [][\A q \in DOMAIN queues :
             (Ready(queues'[q]) \cap 1..nput) \subseteq Ready(queues[q])]_vars
    /\ [][PassRuns =>
             /\ \A c \in ChannelIds :
                   Len(delivered'[c]) <= Len(delivered[c]) + 1
             /\ Cardinality(Progress)
                   = Cardinality(UNION {Taken(q) : q \in DOMAIN queues})
             /\ \A c \in Progress :
                   qos_prefetch_count[c] > 0
                       => Len(unacked'[c]) <= qos_prefetch_count[c]
             /\ ret'.res = "callLater" <=> Progress # {}
             /\ ret'.res = "callback" <=> Progress = {}
             /\ BagSize(pending')
                   = BagSize(pending) - (IF Progress = {} THEN 1 ELSE 0)]_vars

(***************************************************************************)
(* C27                                                                     *)
(***************************************************************************)
\* The step is a call of teardown_transport.
TearsDown == ret'.op = "teardown_transport"

\* The step follows a call of teardown_transport and is the arrival of a
\* client's connect or disconnect event.
EventAfterTeardown ==
    /\ ret.op = "teardown_transport"
    /\ ret'.op \in {"connectionMade", "connectionLost"}

\* C27: teardown_transport stops reconnection whatever the state it is
\* called in (connected, reconnect scheduled, or reconnect timer fired with
\* the connection not yet made): it returns without raising, leaves no
\* reconnect call scheduled and retrying switched off, and a client's
\* connect or disconnect event that arrives after it schedules no new
\* attempt.
C27_TeardownStopsReconnecting ==
    [][ /\ TearsDown =>
               /\ ret'.res = "ok"
               /\ reconnect_call' # "scheduled"
               /\ ~continue_trying'
        /\ EventAfterTeardown => reconnect_call' # "scheduled" ]_vars
====
